---- MODULE Spec2Model ----
(***************************************************************************)
(* Model of the ARGO NetCDF -> PostgreSQL ingestion pipeline of            *)
(* src/convertor.py: main's file loop, ArgoDataConverter.process_file and  *)
(* its helpers, over one psycopg2 connection (non-autocommit, the          *)
(* default: get_db_connection never sets autocommit).                      *)
(*                                                                         *)
(* The database is modelled as the committed tables (profiles,             *)
(* measurements), the rows written by the connection's open transaction    *)
(* (tx_profiles, tx_meas) and the connection's transaction status (tx).    *)
(* The schema's uniqueness constraint is not relied on: an INSERT may      *)
(* fail for any reason (InsertFail) and may succeed whenever the           *)
(* transaction is usable, so every behaviour of the constrained database   *)
(* is a behaviour of this model.                                           *)
(*                                                                         *)
(* Three specifications: Spec, the single pipeline over a store whose      *)
(* profile_id sequence starts at 1; SpecZero, the same over a generated    *)
(* key starting at 0; SpecPair, two pipeline processes with a connection   *)
(* each on one store whose profile table has the uniqueness constraint.    *)
(***************************************************************************)
EXTENDS Integers, Sequences, FiniteSets, TLC

\* ------------------------------------------------------------------ bounds
\* Longest file list handed to main.
MaxFiles == 2
\* Number of successive pipeline runs over the same file list.
MaxRuns == 2
\* Rows per INSERT statement of execute_values (psycopg2's page_size, scaled).
PageSize == 2
\* Failures the environment injects in one behaviour: open_dataset or a
\* database call raising.
MaxFaults == 3
\* files per process when two processes share the store
MaxWorkerFiles == 1
\* failures injected when two processes share the store
MaxPairFaults == 1

\* ------------------------------------------------------------ value domain
\* numpy NaN: a fill value, or a value masked by DataArray.where.
NaN == -1
\* Python None: SQL NULL, and the value _insert_profile_metadata returns on failure.
None == -2
\* The first value of the generated key argo_profiles.profile_id.
SerialStart == 1
\* the first value of an identity column declared to start at 0
IdentityZero == 0

\* QC flags accepted by isin([b'1', b'2']).
GoodFlags == {1, 2}

Sample(p, pq, t, tq, s, sq) ==
    [PRES |-> p, PRES_QC |-> pq, TEMP |-> t, TEMP_QC |-> tq, PSAL |-> s, PSAL_QC |-> sq]

Prof(plat, cyc, juld, samples) ==
    [PLATFORM_NUMBER |-> plat, CYCLE_NUMBER |-> cyc, JULD |-> juld, samples |-> samples]

\* --------------------------------------------------------- the input files
sGood   == Sample(10, 1, 5, 1, 3, 2)
sBadT   == Sample(20, 1, 6, 4, 3, 1)
sNoP    == Sample(NaN, 1, 7, 1, 3, 1)
sBadP   == Sample(30, 4, 8, 1, NaN, 1)
sNoFlag == Sample(40, 2, 9, 0, 4, 3)
sDeep   == Sample(50, 1, 2, 1, 4, 1)
sBadT2  == Sample(60, 2, 1, 4, NaN, 1)
sDeep2  == Sample(70, 1, 0, 1, 5, 4)

pA == Prof(1, 1, 0, <<sGood, sBadT, sNoP>>)
pB == Prof(1, 2, 1, <<sBadP, sNoFlag>>)
\* the key of pA again, with other depth samples, none of which survives
pD == Prof(1, 1, 2, <<sNoP, sBadP>>)
\* five samples with good pressure: temperature flag 4 on two, 1 on three
pS == Prof(3, 1, 3, <<sGood, sBadT, sDeep, sBadT2, sDeep2>>)
\* JULD is NaN: timedelta(days=nan) raises ValueError
pE == Prof(2, 2, NaN, <<sGood>>)

FileLib == { <<pA, pB>>, <<pD, pA>>, <<pS, pE>> }

RECURSIVE SeqsUpTo(_, _)
SeqsUpTo(S, n) ==
    IF n = 0 THEN { <<>> }
    ELSE LET shorter == SeqsUpTo(S, n - 1)
         IN  shorter \cup { Append(q, x) : q \in { r \in shorter : Len(r) = n - 1 }, x \in S }

FileLists == { l \in SeqsUpTo(FileLib, MaxFiles) : Len(l) >= 1 }

VARIABLES
    files,          \* nc_files: the list main iterates
    run,            \* which run of the pipeline this is
    fi,             \* position of main's loop in files (1-based)
    i,              \* profile index of process_file's loop (0-based)
    pc,             \* position of the single thread of control
    ds_handles,     \* the positions in files of the datasets whose handle is open
    tx,             \* status of the connection's transaction
    profiles,       \* committed rows of argo_profiles
    measurements,   \* committed rows of ocean_measurements, in insertion order
    tx_profiles,    \* argo_profiles rows written by the open transaction
    tx_meas,        \* ocean_measurements rows written by the open transaction
    next_id,        \* next value of the profile_id sequence
    profile_id,     \* process_file's local profile_id
    batch,          \* process_file's local measurements
    sent,           \* rows of batch already sent by execute_values
    \* history variables: they record what happened and steer nothing
    origin,         \* profile_id -> the profile of the file its INSERT was made for
    file_failed,    \* a failure originated in the file being (or just) processed
    earlier_failed, \* a failure originated in an earlier file of this run
    run_clean,      \* no file was aborted and no profile insert failed in this run
    prev,           \* the store and the verdict at the end of the previous run
    last_commit,    \* the store as of the last successful commit
    kill_lost,      \* rows (profile, measurement) of the open transaction at the kill
    it,             \* the current profile iteration: the store at its start and what it did
    faults,         \* failures injected so far
    attempted,      \* positions in files handed to process_file in this run, in order
    fstart,         \* the current file: the store when it was opened, the indices skipped
    \* two pipeline processes on one store (SpecPair); unused by the single pipeline
    worker_files,   \* nc_files of each process
    workers,        \* each process's position, locals and open transaction
    wlog            \* history: which process tried, committed, lost and wrote what

state == << files, run, fi, i, pc, ds_handles, tx, profiles, measurements,
            tx_profiles, tx_meas, next_id, profile_id, batch, sent >>
hist  == << origin, file_failed, earlier_failed, run_clean, prev, last_commit,
            kill_lost, it, fstart, faults, attempted >>
pair  == << worker_files, workers, wlog >>
vars  == << state, hist, pair >>

\* ------------------------------------------------------- pure functions
\* Mutant of Where: the QC mask is not applied.
Where_unmasked(v, flag) == v

\* DataArray.where(QC.isin([b'1', b'2'])): the value where the flag is good, NaN elsewhere.
Where(v, flag) == IF flag \in GoodFlags THEN v ELSE NaN

\* df.where(pd.notna(df), None): NaN becomes None.
NanToNone(v) == IF v = NaN THEN None ELSE v

\* The DataFrame of _extract_measurements before dropna: one row per depth sample.
Frame(samples) ==
    [ k \in 1..Len(samples) |->
        [ pressure_dbar       |-> Where(samples[k].PRES, samples[k].PRES_QC),
          temperature_celsius |-> Where(samples[k].TEMP, samples[k].TEMP_QC),
          salinity_psu        |-> Where(samples[k].PSAL, samples[k].PSAL_QC) ] ]

\* Mutant of DropNa: no row is dropped.
DropNa_off(df) == df

\* Mutant of DropNa: dropna() without subset drops a row for any missing value.
DropNa_any(df) ==
    SelectSeq(df, LAMBDA r : /\ r.pressure_dbar # NaN
                             /\ r.temperature_celsius # NaN
                             /\ r.salinity_psu # NaN)

\* df.dropna(subset=['pressure_dbar']).
DropNa(df) == SelectSeq(df, LAMBDA r : r.pressure_dbar # NaN)

\* Mutant of ToTuples: the rows are labelled with the profile's index in the
\* file (profile_index) instead of the generated profile_id.
ToTuples_index(df, pid) ==
    [ k \in 1..Len(df) |->
        [ profile_id          |-> i,
          pressure_dbar       |-> NanToNone(df[k].pressure_dbar),
          temperature_celsius |-> NanToNone(df[k].temperature_celsius),
          salinity_psu        |-> NanToNone(df[k].salinity_psu) ] ]

\* One tuple per surviving row, profile_id first.
ToTuples(df, pid) ==
    [ k \in 1..Len(df) |->
        [ profile_id          |-> pid,
          pressure_dbar       |-> NanToNone(df[k].pressure_dbar),
          temperature_celsius |-> NanToNone(df[k].temperature_celsius),
          salinity_psu        |-> NanToNone(df[k].salinity_psu) ] ]

_extract_measurements(samples, pid) == ToTuples(DropNa(Frame(samples)), pid)

\* Mutant of _profile_exists: the WHERE clause compares platform_number only.
profile_exists_platform(rows, platform_number, cycle_number) ==
    \E r \in rows : r.platform_number = platform_number

\* Mutant of _profile_exists: the check never finds the row.
profile_exists_never(rows, platform_number, cycle_number) == FALSE

\* SELECT 1 FROM argo_profiles WHERE platform_number = %s AND cycle_number = %s
_profile_exists(rows, platform_number, cycle_number) ==
    \E r \in rows : r.platform_number = platform_number /\ r.cycle_number = cycle_number

\* Mutant of AfterExists: an existing profile skips the insert only, and the
\* extraction goes on with the profile_id left by an earlier iteration.
AfterExists_stale(found) == IF found THEN "extract" ELSE "meta"

\* Mutant of AfterExists: the result of the check is ignored.
AfterExists_noskip(found) == "meta"

\* if self._profile_exists(...): continue
AfterExists(found) == IF found THEN "loop" ELSE "meta"

\* Mutant of Falsy: the returned id is not tested.
Falsy_never(pid) == FALSE

\* if not profile_id: continue
Falsy(pid) == pid = None \/ pid = 0

\* Mutant of ExecuteInsert: the connection is in autocommit mode.
ExecuteInsert_autocommit(committed, pending, row) ==
    [ committed |-> committed \cup {row}, pending |-> pending ]

\* cur.execute(INSERT ... RETURNING profile_id) on a non-autocommit connection:
\* the row belongs to the open transaction until commit.
ExecuteInsert(committed, pending, row) ==
    [ committed |-> committed, pending |-> pending \cup {row} ]

\* Mutant of ExecutePage: every page is committed as it is sent.
ExecutePage_autocommit(committed, pending, page) ==
    [ committed |-> committed \o page, pending |-> pending ]

\* One page of execute_values on a non-autocommit connection.
ExecutePage(committed, pending, page) ==
    [ committed |-> committed, pending |-> pending \o page ]

Min(a, b) == IF a < b THEN a ELSE b

\* ---------------------------------------------------------- abbreviations
CurFile == files[fi]
\* ds, the dataset of the with block, is open
ds_open == fi \in ds_handles
CurProf == CurFile[i + 1]
MeasOf(pid) == SelectSeq(measurements, LAMBDA r : r.profile_id = pid)
Keys(rows) == { <<r.platform_number, r.cycle_number>> : r \in rows }
KeysOfFile(f) == { <<f[k].PLATFORM_NUMBER, f[k].CYCLE_NUMBER>> : k \in 1..Len(f) }
NoIter == [ snap_p |-> {}, snap_m |-> <<>>, active |-> FALSE, idx |-> 0,
            dup |-> FALSE, new |-> FALSE, reads |-> 0, handed |-> <<>>,
            torn |-> FALSE, done |-> FALSE, fail |-> "none" ]
NoFile == [ snap_p |-> {}, snap_m |-> <<>>, dups |-> {}, added |-> {},
            batched |-> {}, abort |-> None ]


\* ---------------------------------------------------------- initial state
\* The state after main's set-up (a connection, the discovered files), over a
\* store whose profile_id sequence will yield first_id next.
Start(first_id) ==
    /\ files \in FileLists
    /\ run = 1
    /\ fi = 1
    /\ i = 0
    /\ pc = "main"
    /\ ds_handles = {}
    /\ tx = "idle"
    /\ profiles = {}
    /\ measurements = <<>>
    /\ tx_profiles = {}
    /\ tx_meas = <<>>
    /\ next_id = first_id
    /\ profile_id = None
    /\ batch = <<>>
    /\ sent = 0
    /\ origin = <<>>
    /\ file_failed = FALSE
    /\ earlier_failed = FALSE
    /\ run_clean = TRUE
    /\ prev = [ np |-> 0, nm |-> 0, clean |-> FALSE, keys |-> {} ]
    /\ last_commit = [ profiles |-> {}, measurements |-> <<>> ]
    /\ kill_lost = << 0, 0 >>
    /\ it = NoIter
    /\ fstart = NoFile
    /\ faults = 0
    /\ attempted = <<>>

\* The single pipeline: there are no other processes on the store.
NoLog == [ tried |-> {}, won |-> {}, lost |-> {}, wrote |-> {} ]
NoWorkers ==
    /\ worker_files = <<>>
    /\ workers = <<>>
    /\ wlog = NoLog

\* profile_id SERIAL: the sequence starts at 1.
Init == Start(SerialStart) /\ NoWorkers

\* The same program over a profile table whose generated key starts at 0
\* (GENERATED ... AS IDENTITY (MINVALUE 0 START WITH 0)).
InitZero == Start(IdentityZero) /\ NoWorkers

\* groups of variables, for the frame conditions
input  == << files, run >>
tables == << profiles, measurements, last_commit >>
txn    == << tx, tx_profiles, tx_meas >>
locals == << profile_id, batch, sent >>
runlog == << prev, kill_lost, attempted >>

\* ------------------------------------------------- process_file's exits
\* The with block is left and process_file returns: by the end of the profile
\* loop, or through the handler of lines 90-91, which logs and does nothing
\* else (the connection's transaction is left as it is).
LeaveFile ==
    /\ pc' = "main"
    /\ fi' = fi + 1
    /\ i' = 0
    /\ ds_handles' = ds_handles \ {fi}
    /\ profile_id' = None
    /\ batch' = <<>>
    /\ sent' = 0
    /\ it' = NoIter

\* Mutant of AbortFile: the dataset is closed by the last statement of the
\* try block instead of a with block, so an exception skips the close.
AbortFile_leak ==
    /\ pc' = "main"
    /\ fi' = fi + 1
    /\ i' = 0
    /\ ds_handles' = ds_handles
    /\ profile_id' = None
    /\ batch' = <<>>
    /\ sent' = 0
    /\ it' = NoIter
    /\ run_clean' = FALSE

\* Mutant of AbortFile: the handler logs and raises again, so the exception
\* leaves main's loop and the process ends with the files that remain untouched.
AbortFile_stop ==
    /\ pc' = "closed"
    /\ fi' = fi + 1
    /\ i' = 0
    /\ ds_handles' = ds_handles \ {fi}
    /\ profile_id' = None
    /\ batch' = <<>>
    /\ sent' = 0
    /\ it' = NoIter
    /\ run_clean' = FALSE

\* An exception reaches the handler of lines 90-91: the with block is left
\* by the exception, then the handler logs.
AbortFile ==
    /\ LeaveFile
    /\ run_clean' = FALSE

\* continue / end of the loop body: on to the next profile index.
NextProfile ==
    /\ pc' = "loop"
    /\ i' = i + 1
    /\ batch' = <<>>
    /\ sent' = 0

\* ------------------------------------------------------------------ main
\* for file_path in nc_files: converter.process_file(file_path)
MainNext ==
    /\ UNCHANGED faults
    /\ pc = "main"
    /\ fi <= Len(files)
    /\ pc' = "open"
    /\ earlier_failed' = (earlier_failed \/ file_failed)
    /\ file_failed' = FALSE
    /\ fstart' = NoFile
    /\ attempted' = Append(attempted, fi)
    /\ UNCHANGED << input, pair, fi, i, ds_handles, tables, txn, next_id, locals, origin,
                    run_clean, prev, kill_lost, it >>

\* db_conn.close(): the server ends the session; an open transaction is rolled back.
MainClose ==
    /\ UNCHANGED faults
    /\ pc = "main"
    /\ fi > Len(files)
    /\ pc' = "closed"
    /\ tx' = "idle"
    /\ tx_profiles' = {}
    /\ tx_meas' = <<>>
    /\ fstart' = NoFile
    /\ UNCHANGED << input, pair, fi, i, ds_handles, tables, next_id, locals, origin,
                    file_failed, earlier_failed, run_clean, runlog, it >>

\* The pipeline is started again over the same file list, with a new connection.
Rerun ==
    /\ UNCHANGED faults
    /\ pc = "closed"
    /\ run < MaxRuns
    /\ run' = run + 1
    /\ fi' = 1
    /\ pc' = "main"
    /\ file_failed' = FALSE
    /\ earlier_failed' = FALSE
    /\ run_clean' = TRUE
    /\ prev' = [ np |-> Cardinality(profiles), nm |-> Len(measurements),
                 clean |-> run_clean, keys |-> Keys(profiles) ]
    /\ attempted' = <<>>
    /\ UNCHANGED << files, pair, i, ds_handles, tables, txn, next_id, locals, origin,
                    kill_lost, it, fstart >>

\* ---------------------------------------------------------- process_file
\* with xr.open_dataset(file_path, decode_times=False) as ds
OpenDataset ==
    /\ UNCHANGED faults
    /\ pc = "open"
    /\ ds_handles' = ds_handles \cup {fi}
    /\ i' = 0
    /\ pc' = "loop"
    /\ it' = NoIter
    /\ fstart' = [ NoFile EXCEPT !.snap_p = profiles, !.snap_m = measurements ]
    /\ UNCHANGED << input, pair, fi, tables, txn, next_id, locals, origin, file_failed,
                    earlier_failed, run_clean, runlog >>

\* open_dataset raises (unreadable or corrupt file): caught at lines 90-91.
OpenFail ==
    /\ faults < MaxFaults
    /\ faults' = faults + 1
    /\ pc = "open"
    /\ AbortFile
    /\ file_failed' = TRUE
    /\ UNCHANGED << input, pair, tables, txn, next_id, origin, earlier_failed, runlog,
                    fstart >>

\* for i in range(len(ds.N_PROF)): read PLATFORM_NUMBER and CYCLE_NUMBER of index i.
LoopHead ==
    /\ UNCHANGED faults
    /\ pc = "loop"
    /\ i < Len(CurFile)
    /\ pc' = "exists"
    /\ it' = [ NoIter EXCEPT !.snap_p = profiles, !.snap_m = measurements,
                             !.active = TRUE, !.idx = i ]
    /\ UNCHANGED << input, pair, fi, i, ds_handles, tables, txn, next_id, locals, origin,
                    file_failed, earlier_failed, run_clean, runlog, fstart >>

\* The loop is exhausted: the with block closes the dataset, process_file returns.
LoopExit ==
    /\ UNCHANGED faults
    /\ pc = "loop"
    /\ i >= Len(CurFile)
    /\ LeaveFile
    /\ UNCHANGED << input, pair, tables, txn, next_id, origin, file_failed,
                    earlier_failed, run_clean, runlog, fstart >>

\* self._profile_exists(platform_number, cycle_number): the SELECT runs in the
\* connection's transaction (begun by it when none is open) and sees the
\* committed rows and the transaction's own.
ProfileExists ==
    /\ UNCHANGED faults
    /\ pc = "exists"
    /\ tx # "aborted"
    /\ LET found == _profile_exists(profiles \cup tx_profiles,
                                    CurProf.PLATFORM_NUMBER, CurProf.CYCLE_NUMBER)
       IN  /\ pc' = AfterExists(found)
           /\ i' = IF pc' = "loop" THEN i + 1 ELSE i
           /\ it' = [ it EXCEPT !.dup = found ]
           /\ fstart' = IF found THEN [ fstart EXCEPT !.dups = @ \cup {i} ] ELSE fstart
    /\ tx' = "intrans"
    /\ UNCHANGED << input, pair, fi, ds_handles, tables, tx_profiles, tx_meas, next_id,
                    locals, origin, file_failed, earlier_failed, run_clean, runlog >>

\* The SELECT itself fails (cancelled, timed out, ...): the server marks the
\* transaction aborted, psycopg2 raises, and nothing between _profile_exists
\* and the handler of lines 90-91 rolls back.
ExistsFail ==
    /\ faults < MaxFaults
    /\ faults' = faults + 1
    /\ pc = "exists"
    /\ tx # "aborted"
    /\ tx' = "aborted"
    /\ AbortFile
    /\ fstart' = [ fstart EXCEPT !.abort = i ]
    /\ file_failed' = TRUE
    /\ UNCHANGED << input, pair, tables, tx_profiles, tx_meas, next_id, origin,
                    earlier_failed, runlog >>

\* The transaction is already aborted: every statement raises
\* InFailedSqlTransaction until a rollback, and the SELECT is a statement.
ExistsInAborted ==
    /\ UNCHANGED faults
    /\ pc = "exists"
    /\ tx = "aborted"
    /\ AbortFile
    /\ fstart' = [ fstart EXCEPT !.abort = i ]
    /\ UNCHANGED << input, pair, tables, txn, next_id, origin, file_failed,
                    earlier_failed, runlog >>

\* Lines 74-77: JULD, LATITUDE, LONGITUDE are read and converted.
ReadMeta ==
    /\ UNCHANGED faults
    /\ pc = "meta"
    /\ CurProf.JULD # NaN
    /\ pc' = "insert"
    /\ it' = [ it EXCEPT !.reads = @ + 1 ]
    /\ UNCHANGED << input, pair, fi, i, ds_handles, tables, txn, next_id, locals, origin,
                    file_failed, earlier_failed, run_clean, runlog, fstart >>

\* timedelta(days=float('nan')) raises ValueError: caught at lines 90-91.
ReadMetaFail ==
    /\ UNCHANGED faults
    /\ pc = "meta"
    /\ CurProf.JULD = NaN
    /\ AbortFile
    /\ fstart' = [ fstart EXCEPT !.abort = i ]
    /\ file_failed' = TRUE
    /\ UNCHANGED << input, pair, tables, txn, next_id, origin, earlier_failed, runlog >>

\* ------------------------------------------------- commit and rollback
\* self.db_conn.commit(): the transaction's rows become the store's.
CommitTx ==
    /\ profiles' = profiles \cup tx_profiles
    /\ measurements' = measurements \o tx_meas
    /\ tx_profiles' = {}
    /\ tx_meas' = <<>>
    /\ tx' = "idle"
    /\ last_commit' = [ profiles |-> profiles', measurements |-> measurements' ]

\* Mutant of RollbackTx: the rollback also undoes the profile insert that was
\* committed earlier in the iteration.
RollbackTx_cascade ==
    /\ tx_profiles' = {}
    /\ tx_meas' = <<>>
    /\ tx' = "idle"
    /\ profiles' = it.snap_p
    /\ measurements' = measurements
    /\ last_commit' = [ profiles |-> profiles', measurements |-> measurements' ]

\* Mutant of RollbackTx: the file is one transaction, and a rollback takes the
\* store back to what it was when the file was opened.
RollbackTx_file ==
    /\ tx_profiles' = {}
    /\ tx_meas' = <<>>
    /\ tx' = "idle"
    /\ profiles' = fstart.snap_p
    /\ measurements' = fstart.snap_m
    /\ last_commit' = [ profiles |-> profiles', measurements |-> measurements' ]

\* self.db_conn.rollback(): the transaction's rows are discarded.
RollbackTx ==
    /\ tx_profiles' = {}
    /\ tx_meas' = <<>>
    /\ tx' = "idle"
    /\ UNCHANGED tables

\* ----------------------------------------------- _insert_profile_metadata
\* cur.execute(sql, ...); profile_id = cur.fetchone()[0]
InsertExecute ==
    /\ pc = "insert"
    /\ tx # "aborted"
    /\ LET row == [ profile_id        |-> next_id,
                    platform_number   |-> CurProf.PLATFORM_NUMBER,
                    cycle_number      |-> CurProf.CYCLE_NUMBER,
                    profile_timestamp |-> CurProf.JULD ]
           r   == ExecuteInsert(profiles, tx_profiles, row)
       IN  /\ profiles' = r.committed
           /\ tx_profiles' = r.pending
    /\ next_id' = next_id + 1
    /\ tx' = "intrans"
    /\ pc' = "insert_commit"
    /\ UNCHANGED << input, pair, fi, i, ds_handles, measurements, last_commit, tx_meas,
                    locals, hist >>

\* self.db_conn.commit(); return profile_id -- then "if not profile_id: continue".
InsertCommit ==
    /\ UNCHANGED faults
    /\ pc = "insert_commit"
    /\ CommitTx
    /\ fstart' = [ fstart EXCEPT !.added = @ \cup {i} ]
    /\ profile_id' = next_id - 1
    /\ origin' = ((next_id - 1) :> CurProf) @@ origin
    /\ it' = [ it EXCEPT !.new = TRUE ]
    /\ IF Falsy(profile_id')
       THEN NextProfile
       ELSE pc' = "extract" /\ UNCHANGED << i, batch, sent >>
    /\ UNCHANGED << input, pair, fi, ds_handles, next_id, file_failed, earlier_failed,
                    run_clean, runlog >>

\* The INSERT or the commit raises: logged, rollback, return None, continue.
\* The sequence value of the failed row is spent: sequences do not roll back.
InsertFail ==
    /\ faults < MaxFaults
    /\ faults' = faults + 1
    /\ pc \in { "insert", "insert_commit" }
    /\ RollbackTx
    /\ next_id' = IF pc = "insert" THEN next_id + 1 ELSE next_id
    /\ profile_id' = None
    /\ NextProfile
    /\ file_failed' = TRUE
    /\ run_clean' = FALSE
    /\ it' = [ it EXCEPT !.fail = "insert" ]
    /\ UNCHANGED << input, pair, fi, ds_handles, origin, earlier_failed, runlog, fstart >>

\* ---------------------------------------------------- _extract_measurements
\* measurements = self._extract_measurements(ds, i, profile_id); if measurements: ...
Extract ==
    /\ UNCHANGED faults
    /\ pc = "extract"
    /\ batch' = _extract_measurements(CurProf.samples, profile_id)
    /\ it' = [ it EXCEPT !.reads = @ + 1, !.handed = batch' ]
    /\ IF batch' = <<>>
       THEN pc' = "loop" /\ i' = i + 1
       ELSE pc' = "bulk" /\ i' = i
    /\ sent' = 0
    /\ UNCHANGED << input, pair, fi, ds_handles, tables, txn, next_id, profile_id, origin,
                    file_failed, earlier_failed, run_clean, runlog, fstart >>

\* Mutant of ExtractFail: _extract_measurements has no handler of its own, the
\* exception reaches the handler of process_file and the file is abandoned.
ExtractFail_propagate ==
    /\ faults < MaxFaults
    /\ faults' = faults + 1
    /\ pc = "extract"
    /\ pc' = "main"
    /\ fi' = fi + 1
    /\ i' = 0
    /\ ds_handles' = ds_handles \ {fi}
    /\ profile_id' = None
    /\ batch' = <<>>
    /\ sent' = 0
    /\ it' = [ it EXCEPT !.reads = @ + 1, !.fail = "extract" ]
    /\ file_failed' = TRUE
    /\ run_clean' = FALSE
    /\ UNCHANGED << input, pair, tables, txn, next_id, origin, earlier_failed, runlog,
                    fstart >>

\* An exception inside _extract_measurements: logged as a warning, [] returned.
ExtractFail ==
    /\ faults < MaxFaults
    /\ faults' = faults + 1
    /\ pc = "extract"
    /\ NextProfile
    /\ it' = [ it EXCEPT !.reads = @ + 1, !.fail = "extract" ]
    /\ file_failed' = TRUE
    /\ UNCHANGED << input, pair, fi, ds_handles, tables, txn, next_id, profile_id, origin,
                    earlier_failed, run_clean, runlog, fstart >>

\* ------------------------------------------------ _bulk_insert_measurements
\* execute_values(cur, sql, measurements): one INSERT statement per page.
BulkPage ==
    /\ pc = "bulk"
    /\ sent < Len(batch)
    /\ tx # "aborted"
    /\ LET upto == Min(sent + PageSize, Len(batch))
           page == SubSeq(batch, sent + 1, upto)
           r    == ExecutePage(measurements, tx_meas, page)
       IN  /\ measurements' = r.committed
           /\ tx_meas' = r.pending
           /\ sent' = upto
    /\ tx' = "intrans"
    /\ UNCHANGED << input, pair, fi, i, pc, ds_handles, profiles, last_commit, tx_profiles,
                    next_id, profile_id, batch, hist >>

\* self.db_conn.commit() after the last page.
BulkCommit ==
    /\ UNCHANGED faults
    /\ pc = "bulk"
    /\ sent = Len(batch)
    /\ CommitTx
    /\ fstart' = [ fstart EXCEPT !.batched = @ \cup {i} ]
    /\ NextProfile
    /\ it' = [ it EXCEPT !.done = TRUE ]
    /\ UNCHANGED << input, pair, fi, ds_handles, next_id, profile_id, origin, file_failed,
                    earlier_failed, run_clean, runlog >>

\* A page or the commit raises: logged, rollback.
BulkFail ==
    /\ faults < MaxFaults
    /\ faults' = faults + 1
    /\ pc = "bulk"
    /\ RollbackTx
    /\ NextProfile
    /\ it' = [ it EXCEPT !.torn = (sent > 0), !.fail = "bulk" ]
    /\ file_failed' = TRUE
    /\ UNCHANGED << input, pair, fi, ds_handles, next_id, profile_id, origin,
                    earlier_failed, run_clean, runlog, fstart >>

\* ---------------------------------------------------- process termination
\* The process is killed: its memory is gone, and the server rolls back the
\* session's open transaction.
Kill ==
    /\ UNCHANGED faults
    /\ pc \notin { "closed", "killed" }
    /\ pc' = "killed"
    /\ kill_lost' = << Cardinality(tx_profiles), Len(tx_meas) >>
    /\ tx_profiles' = {}
    /\ tx_meas' = <<>>
    /\ tx' = "idle"
    /\ ds_handles' = {}
    /\ fi' = 1
    /\ i' = 0
    /\ profile_id' = None
    /\ batch' = <<>>
    /\ sent' = 0
    /\ it' = NoIter
    /\ fstart' = NoFile
    /\ file_failed' = FALSE
    /\ earlier_failed' = FALSE
    /\ run_clean' = FALSE
    /\ attempted' = <<>>
    /\ UNCHANGED << input, pair, tables, next_id, origin, prev >>

Next ==
    \/ MainNext
    \/ MainClose
    \/ Rerun
    \/ OpenDataset
    \/ OpenFail
    \/ LoopHead
    \/ LoopExit
    \/ ProfileExists
    \/ ExistsFail
    \/ ExistsInAborted
    \/ ReadMeta
    \/ ReadMetaFail
    \/ InsertExecute
    \/ InsertCommit
    \/ InsertFail
    \/ Extract
    \/ ExtractFail
    \/ BulkPage
    \/ BulkCommit
    \/ BulkFail
    \/ Kill

Spec == Init /\ [][Next]_vars

\* The pipeline over the store whose generated key starts at 0.
SpecZero == InitZero /\ [][Next]_vars


\* ============================================ two processes on one store
\* Two pipeline processes, each with its own connection and its own list of
\* files, run process_file's loop against the same two tables. The tables,
\* the sequence and origin are shared; everything else of the single
\* pipeline is unused here and stays as it started.
Procs == { 1, 2 }
WorkerLists == { l \in SeqsUpTo(FileLib, MaxWorkerFiles) : Len(l) >= 1 }

\* UNIQUE (platform_number, cycle_number) on argo_profiles: whether row
\* conflicts with one of rows.
UniqueViolation(rows, row) ==
    \E r \in rows : /\ r.platform_number = row.platform_number
                    /\ r.cycle_number = row.cycle_number

NewWorker == [ pc |-> "main", fi |-> 1, i |-> 0, tx_profiles |-> {},
               profile_id |-> None, batch |-> <<>> ]

PairInit ==
    /\ Start(SerialStart)
    /\ files = << << pA, pB >> >>
    /\ worker_files \in [ Procs -> WorkerLists ]
    /\ workers = [ p \in Procs |-> NewWorker ]
    /\ wlog = NoLog

solo == << files, run, fi, i, pc, ds_handles, txn, locals, last_commit, file_failed,
           earlier_failed, run_clean, runlog, it, fstart >>
store == << profiles, measurements, next_id, origin >>

Me(p) == workers[p]
WFile(p) == worker_files[p][Me(p).fi]
WProf(p) == WFile(p)[Me(p).i + 1]
WKey(p) == << WProf(p).PLATFORM_NUMBER, WProf(p).CYCLE_NUMBER >>
\* the row _insert_profile_metadata is about to insert
WRow(p) == [ profile_id        |-> next_id,
             platform_number   |-> WProf(p).PLATFORM_NUMBER,
             cycle_number      |-> WProf(p).CYCLE_NUMBER,
             profile_timestamp |-> WProf(p).JULD ]
Becomes(p, w) == workers' = [ workers EXCEPT ![p] = w ]
\* continue / end of the loop body
WContinue(w) == [ w EXCEPT !.pc = "loop", !.i = @ + 1, !.batch = <<>> ]
\* process_file returns
WLeave(w) == [ w EXCEPT !.pc = "main", !.fi = @ + 1, !.i = 0,
                        !.profile_id = None, !.batch = <<>> ]
\* The INSERT waits while another session's uncommitted row holds the key.
Blocked(p) ==
    \E q \in Procs \ {p} : UniqueViolation(Me(q).tx_profiles, WRow(p))

\* converter.process_file(file_path): with xr.open_dataset(...) as ds
WOpen(p) ==
    /\ Me(p).pc = "main"
    /\ Me(p).fi <= Len(worker_files[p])
    /\ Becomes(p, [ Me(p) EXCEPT !.pc = "loop", !.i = 0 ])
    /\ UNCHANGED << solo, faults, store, worker_files, wlog >>

\* db_conn.close()
WClose(p) ==
    /\ Me(p).pc = "main"
    /\ Me(p).fi > Len(worker_files[p])
    /\ Becomes(p, [ Me(p) EXCEPT !.pc = "closed" ])
    /\ UNCHANGED << solo, faults, store, worker_files, wlog >>

\* for i in range(len(ds.N_PROF))
WLoopHead(p) ==
    /\ Me(p).pc = "loop"
    /\ Me(p).i < Len(WFile(p))
    /\ Becomes(p, [ Me(p) EXCEPT !.pc = "exists" ])
    /\ UNCHANGED << solo, faults, store, worker_files, wlog >>

WLoopExit(p) ==
    /\ Me(p).pc = "loop"
    /\ Me(p).i >= Len(WFile(p))
    /\ Becomes(p, WLeave(Me(p)))
    /\ UNCHANGED << solo, faults, store, worker_files, wlog >>

\* self._profile_exists(...): under READ COMMITTED the SELECT sees what any
\* session has committed by now, and this session's own rows.
WProfileExists(p) ==
    /\ Me(p).pc = "exists"
    /\ LET found == _profile_exists(profiles \cup Me(p).tx_profiles,
                                    WProf(p).PLATFORM_NUMBER, WProf(p).CYCLE_NUMBER)
       IN  Becomes(p, IF AfterExists(found) = "loop"
                      THEN WContinue(Me(p))
                      ELSE [ Me(p) EXCEPT !.pc = AfterExists(found) ])
    /\ UNCHANGED << solo, faults, store, worker_files, wlog >>

\* Lines 74-77.
WReadMeta(p) ==
    /\ Me(p).pc = "meta"
    /\ WProf(p).JULD # NaN
    /\ Becomes(p, [ Me(p) EXCEPT !.pc = "insert" ])
    /\ UNCHANGED << solo, faults, store, worker_files, wlog >>

WReadMetaFail(p) ==
    /\ Me(p).pc = "meta"
    /\ WProf(p).JULD = NaN
    /\ Becomes(p, WLeave(Me(p)))
    /\ UNCHANGED << solo, faults, store, worker_files, wlog >>

\* cur.execute(INSERT ... RETURNING profile_id) succeeds: no committed row and
\* no other session's uncommitted row has the key.
WInsertExecute(p) ==
    /\ Me(p).pc = "insert"
    /\ ~Blocked(p)
    /\ ~UniqueViolation(profiles, WRow(p))
    /\ LET r == ExecuteInsert(profiles, Me(p).tx_profiles, WRow(p))
       IN  /\ profiles' = r.committed
           /\ Becomes(p, [ Me(p) EXCEPT !.pc = "insert_commit",
                                        !.tx_profiles = r.pending ])
    /\ next_id' = next_id + 1
    /\ wlog' = [ wlog EXCEPT !.tried = @ \cup { << p, WKey(p) >> } ]
    /\ UNCHANGED << solo, faults, measurements, origin, worker_files >>

\* The INSERT meets a committed row with the key: the statement raises, the
\* handler rolls back and returns None (the sequence value is spent).
WInsertConflict(p) ==
    /\ Me(p).pc = "insert"
    /\ ~Blocked(p)
    /\ UniqueViolation(profiles, WRow(p))
    /\ next_id' = next_id + 1
    /\ LET w == [ Me(p) EXCEPT !.profile_id = None, !.tx_profiles = {} ]
       IN  Becomes(p, IF Falsy(w.profile_id)
                      THEN WContinue(w)
                      ELSE [ w EXCEPT !.pc = "extract" ])
    /\ wlog' = [ wlog EXCEPT !.tried = @ \cup { << p, WKey(p) >> },
                             !.lost = @ \cup { << p, WKey(p) >> } ]
    /\ UNCHANGED << solo, faults, profiles, measurements, origin, worker_files >>

\* profile_id = cur.fetchone()[0]; self.db_conn.commit(); return profile_id
WInsertCommit(p) ==
    /\ Me(p).pc = "insert_commit"
    /\ LET row == CHOOSE r \in Me(p).tx_profiles : TRUE
           w   == [ Me(p) EXCEPT !.profile_id = row.profile_id, !.tx_profiles = {} ]
       IN  /\ profiles' = profiles \cup Me(p).tx_profiles
           /\ origin' = (row.profile_id :> WProf(p)) @@ origin
           /\ Becomes(p, IF Falsy(w.profile_id)
                          THEN WContinue(w)
                          ELSE [ w EXCEPT !.pc = "extract" ])
    /\ wlog' = [ wlog EXCEPT !.won = @ \cup { << p, WKey(p) >> } ]
    /\ UNCHANGED << solo, faults, measurements, next_id, worker_files >>

\* The INSERT or its commit raises for another reason: the handler rolls
\* back, which frees the key for a session waiting on it, and returns None.
WInsertFail(p) ==
    /\ faults < MaxPairFaults
    /\ faults' = faults + 1
    /\ Me(p).pc = "insert_commit"
    /\ LET w == [ Me(p) EXCEPT !.profile_id = None, !.tx_profiles = {} ]
       IN  Becomes(p, IF Falsy(w.profile_id)
                      THEN WContinue(w)
                      ELSE [ w EXCEPT !.pc = "extract" ])
    /\ wlog' = [ wlog EXCEPT !.lost = @ \cup { << p, WKey(p) >> } ]
    /\ UNCHANGED << solo, store, worker_files >>

\* measurements = self._extract_measurements(ds, i, profile_id); if measurements: ...
WExtract(p) ==
    /\ Me(p).pc = "extract"
    /\ LET rows == _extract_measurements(WProf(p).samples, Me(p).profile_id)
       IN  Becomes(p, IF rows = <<>>
                      THEN WContinue(Me(p))
                      ELSE [ Me(p) EXCEPT !.pc = "bulk", !.batch = rows ])
    /\ UNCHANGED << solo, faults, store, worker_files, wlog >>

\* execute_values(cur, sql, measurements); self.db_conn.commit(): the rows of
\* all pages reach the table together, at the commit.
WBulkInsert(p) ==
    /\ Me(p).pc = "bulk"
    /\ measurements' = measurements \o Me(p).batch
    /\ wlog' = [ wlog EXCEPT !.wrote = @ \cup { << p, Me(p).profile_id >> } ]
    /\ Becomes(p, WContinue(Me(p)))
    /\ UNCHANGED << solo, faults, profiles, next_id, origin, worker_files >>

PairNext ==
    \E p \in Procs :
        \/ WOpen(p)
        \/ WClose(p)
        \/ WLoopHead(p)
        \/ WLoopExit(p)
        \/ WProfileExists(p)
        \/ WReadMeta(p)
        \/ WReadMetaFail(p)
        \/ WInsertExecute(p)
        \/ WInsertConflict(p)
        \/ WInsertCommit(p)
        \/ WInsertFail(p)
        \/ WExtract(p)
        \/ WBulkInsert(p)

SpecPair == PairInit /\ [][PairNext]_vars


\* ================================================================ claims
IsPrefix(a, b) == Len(a) <= Len(b) /\ SubSeq(b, 1, Len(a)) = a
KeyOf(r) == << r.platform_number, r.cycle_number >>
Ids == DOMAIN origin

\* C1: no two persisted profile rows share (platform_number, cycle_number),
\* whatever files were processed, in whatever order, how many times.
C1_ProfileUniqueness ==
    \A r1 \in profiles : \A r2 \in profiles : KeyOf(r1) = KeyOf(r2) => r1 = r2

\* The file <<pD, pA>> holds one key at two indices: the first was inserted,
\* the second met the guard.
C1_Witness ==
    /\ pc = "loop"
    /\ CurFile = << pD, pA >>
    /\ i = 2
    /\ fstart.snap_p = {}
    /\ fstart.dups = {1}
    /\ Cardinality(profiles) = 1

C3_BatchAllOrNothing ==
    /\ \A pid \in Ids :
          \/ MeasOf(pid) = <<>>
          \/ MeasOf(pid) = _extract_measurements(origin[pid].samples, pid)
    /\ (it.active /\ it.handed # <<>>) =>
          \/ MeasOf(profile_id) = <<>>
          \/ MeasOf(profile_id) = it.handed
    /\ \A k \in 1..Len(measurements) : measurements[k].profile_id \in Ids

\* _bulk_insert_measurements failed after rows had been sent and has returned.
C3_Witness ==
    /\ pc = "loop"
    /\ it.torn
    /\ it.handed # <<>>
    /\ MeasOf(profile_id) = <<>>

\* C4: after a kill the store holds exactly what the last commit left: no
\* row of an uncommitted profile insert, no part of an uncommitted batch.
C4_KillLeavesCommitted ==
    pc = "killed" =>
        /\ profiles = last_commit.profiles
        /\ measurements = last_commit.measurements
        /\ \A r \in profiles : r.profile_id \in Ids
        /\ \A pid \in Ids :
              Len(MeasOf(pid)) \in { 0, Len(_extract_measurements(origin[pid].samples, pid)) }

\* The process was killed while pages of a batch were sent and not committed.
C4_Witness ==
    /\ pc = "killed"
    /\ kill_lost[2] > 0
    /\ profiles # {}


\* C5: a file in which no failure originates gets all its profiles stored,
\* each new one with all its surviving measurements, whatever happened in the
\* files processed before it.
C5_LaterFilesUnaffected ==
    (pc = "main" /\ fi > 1 /\ ~file_failed) =>
        /\ KeysOfFile(files[fi - 1]) \subseteq Keys(profiles)
        /\ \A r \in profiles \ fstart.snap_p :
              MeasOf(r.profile_id) =
                  _extract_measurements(origin[r.profile_id].samples, r.profile_id)

\* The profile that the current iteration is (or was) about.
IterProf == CurFile[it.idx + 1]
IterKey == << IterProf.PLATFORM_NUMBER, IterProf.CYCLE_NUMBER >>
\* The rows the current iteration added to ocean_measurements, sent or committed.
IterAdded == SubSeq(measurements, Len(it.snap_m) + 1, Len(measurements)) \o tx_meas

\* C6: measurement rows are written only inside the iteration that inserted
\* their profile, after that insert, as (part of) the one batch handed over;
\* never for a profile that existed when the iteration started.
C6_MeasOnlyWithNewProfile ==
    /\ ~it.active => tx_meas = <<>>
    /\ it.active =>
          /\ IsPrefix(it.snap_m, measurements)
          /\ IterAdded # <<>> =>
                /\ it.new
                /\ IterKey \notin Keys(it.snap_p)
                /\ \E r \in profiles \ it.snap_p :
                      r.profile_id = profile_id /\ KeyOf(r) = IterKey
                /\ \A k \in 1..Len(IterAdded) : IterAdded[k].profile_id = profile_id
                /\ IsPrefix(IterAdded, it.handed)

\* A profile left with zero measurements by an earlier failure meets the
\* guard again: it is skipped and stays without measurements.
C6_Witness ==
    /\ pc = "loop"
    /\ it.dup
    /\ \E r \in profiles :
          /\ KeyOf(r) = IterKey
          /\ origin[r.profile_id] = IterProf
          /\ MeasOf(r.profile_id) = <<>>
          /\ _extract_measurements(IterProf.samples, r.profile_id) # <<>>

\* C7: every measurement row sent to the store carries a pressure that is
\* present and is the raw pressure of a sample of its profile with a good
\* pressure flag.
C7_PressureRequired ==
    \A row \in { measurements[k] : k \in 1..Len(measurements) }
               \cup { tx_meas[k] : k \in 1..Len(tx_meas) } :
        /\ row.pressure_dbar \notin { NaN, None }
        /\ row.profile_id \in Ids
        /\ \E j \in 1..Len(origin[row.profile_id].samples) :
              LET smp == origin[row.profile_id].samples[j]
              IN  smp.PRES = row.pressure_dbar /\ smp.PRES_QC \in {1, 2}

\* pA and pB are stored: pA's sample without pressure and pB's sample with
\* pressure flag 4, both with a valid temperature, are not among the rows.
C7_Witness ==
    \E a \in Ids : \E b \in Ids :
        /\ origin[a] = pA /\ Len(MeasOf(a)) = 2
        /\ origin[b] = pB /\ Len(MeasOf(b)) = 1

\* Indices of the depth samples whose pressure is present with flag 1 or 2.
RECURSIVE Surviving(_, _)
Surviving(samples, k) ==
    IF k > Len(samples) THEN <<>>
    ELSE (IF samples[k].PRES_QC \in {1, 2} /\ samples[k].PRES # NaN
          THEN << k >> ELSE <<>>) \o Surviving(samples, k + 1)

\* What a persisted variable must be, given the raw value and its own flag.
Persisted(raw, flag) == IF flag \in {1, 2} /\ raw # NaN THEN raw ELSE None

\* C8: in every persisted row each of the three variables is the raw value of
\* the row's depth sample when that variable's own flag is 1 or 2 and the
\* raw value is present, and the missing marker otherwise.
C8_PerVariableFilter ==
    \A pid \in Ids :
        LET rows == MeasOf(pid)
            smp  == origin[pid].samples
            sv   == Surviving(smp, 1)
        IN  \A k \in 1..Len(rows) :
               /\ k <= Len(sv)
               /\ rows[k].pressure_dbar = Persisted(smp[sv[k]].PRES, smp[sv[k]].PRES_QC)
               /\ rows[k].temperature_celsius =
                      Persisted(smp[sv[k]].TEMP, smp[sv[k]].TEMP_QC)
               /\ rows[k].salinity_psu = Persisted(smp[sv[k]].PSAL, smp[sv[k]].PSAL_QC)

\* Persisted rows where one variable is missing while the others are kept:
\* temperature rejected by its flag, salinity rejected by its flag.
C8_Witness ==
    /\ \E k \in 1..Len(measurements) :
          /\ measurements[k].pressure_dbar = 20
          /\ measurements[k].temperature_celsius = None
          /\ measurements[k].salinity_psu = 3
    /\ \E k \in 1..Len(measurements) :
          /\ measurements[k].pressure_dbar = 70
          /\ measurements[k].temperature_celsius = 0
          /\ measurements[k].salinity_psu = None

\* C9: a profile whose batch was committed has exactly one row per depth
\* sample with a present, good-flagged pressure, in depth order.
C9_OneRowPerGoodPressure ==
    /\ \A pid \in Ids :
          LET rows == MeasOf(pid)
              smp  == origin[pid].samples
              sv   == Surviving(smp, 1)
          IN  rows # <<>> =>
                 /\ Len(rows) = Len(sv)
                 /\ \A k \in 1..Len(rows) :
                       /\ rows[k].pressure_dbar = smp[sv[k]].PRES
                       /\ rows[k].profile_id = pid
    /\ (it.active /\ it.done) =>
          Len(MeasOf(profile_id)) = Len(Surviving(IterProf.samples, 1))

\* Scenario B: pS is stored with 5 rows, the temperature missing on the two
\* rows with flag 4 and present on the other three.
C9_Witness ==
    \E pid \in Ids :
        /\ origin[pid] = pS
        /\ Len(MeasOf(pid)) = 5
        /\ \A k \in {2, 4} : MeasOf(pid)[k].temperature_celsius = None
        /\ \A k \in {1, 3, 5} : MeasOf(pid)[k].temperature_celsius \notin { None, NaN }

\* C10: an iteration whose duplicate check found the key leaves both tables
\* and the transaction's rows as they were, reads nothing more from the file,
\* attempts no insert and hands over to the next index of the same file; a
\* two-profile file with one stored and one new profile adds one profile row
\* and the new profile's measurements only.
C10_DuplicateSkipped ==
    /\ it.dup =>
          /\ pc = "loop"
          /\ i = it.idx + 1
          /\ ds_open
          /\ profiles = it.snap_p
          /\ measurements = it.snap_m
          /\ tx_profiles = {}
          /\ tx_meas = <<>>
          /\ it.reads = 0
          /\ ~it.new
          /\ it.handed = <<>>
    /\ ( /\ pc = "loop"
         /\ Len(CurFile) = 2
         /\ i = 2
         /\ Cardinality(fstart.dups) = 1
         /\ ~file_failed ) =>
          /\ Cardinality(profiles) = Cardinality(fstart.snap_p) + 1
          /\ \E r \in profiles \ fstart.snap_p :
                measurements = fstart.snap_m \o
                    _extract_measurements(origin[r.profile_id].samples, r.profile_id)

\* Scenario A: the file's first profile was stored before the file was
\* opened, its second is new and has been inserted with its measurements.
C10_Witness ==
    /\ pc = "loop"
    /\ Len(CurFile) = 2
    /\ i = 2
    /\ fstart.dups = {0}
    /\ << CurFile[1].PLATFORM_NUMBER, CurFile[1].CYCLE_NUMBER >> \in Keys(fstart.snap_p)
    /\ ~file_failed
    /\ Cardinality(profiles) = Cardinality(fstart.snap_p) + 1
    /\ Len(measurements) > Len(fstart.snap_m)

\* C11: an iteration whose profile insert failed ends with the transaction
\* rolled back, both tables as they were when the iteration started (no row
\* of that profile, no measurement row) and the loop at the next index of
\* the same open file; and an iteration whose profile insert committed,
\* whatever id was generated, goes on to measurement extraction with the id
\* of the row it inserted.
C11_InsertFailureOnly ==
    /\ it.fail = "insert" =>
          /\ tx = "idle"
          /\ tx_profiles = {}
          /\ tx_meas = <<>>
          /\ profiles = it.snap_p
          /\ measurements = it.snap_m
          /\ IterKey \notin Keys(profiles)
          /\ ~it.new
          /\ it.reads = 1
          /\ pc = "loop"
          /\ i = it.idx + 1
          /\ ds_open
    /\ it.new =>
          \E r \in profiles \ it.snap_p :
              /\ KeyOf(r) = IterKey
              /\ profile_id = r.profile_id
              /\ pc = "extract" \/ it.reads = 2

\* C12: an iteration whose batch insert failed ends with the transaction
\* rolled back and no row of the batch in the store, not even the pages sent
\* before the failure; the profile row committed just before is the only
\* change of the iteration, is as it was inserted and has zero measurements;
\* the loop is at the next index of the same open file.
C12_BatchFailureKeepsProfile ==
    it.fail = "bulk" =>
        /\ tx = "idle"
        /\ tx_profiles = {}
        /\ tx_meas = <<>>
        /\ measurements = it.snap_m
        /\ it.new
        /\ it.handed # <<>>
        /\ \E r \in profiles :
              /\ profiles = it.snap_p \cup {r}
              /\ r \notin it.snap_p
              /\ r = [ profile_id        |-> profile_id,
                       platform_number   |-> IterProf.PLATFORM_NUMBER,
                       cycle_number      |-> IterProf.CYCLE_NUMBER,
                       profile_timestamp |-> IterProf.JULD ]
              /\ MeasOf(r.profile_id) = <<>>
        /\ last_commit.profiles = profiles
        /\ pc = "loop"
        /\ i = it.idx + 1
        /\ ds_open

\* The batch of pS (five rows, three pages) failed after a page had been
\* sent: pS is stored without measurements and the loop goes on to pE.
C12_Witness ==
    /\ it.fail = "bulk"
    /\ it.torn
    /\ IterProf = pS
    /\ pc = "loop"
    /\ i < Len(CurFile)
    /\ \E r \in profiles : KeyOf(r) = IterKey /\ MeasOf(r.profile_id) = <<>>

\* C13: an iteration in which _extract_measurements raised ends at the next
\* index of the same open file with nothing handed to the batch insert (no
\* batch, no statement sent, no transaction opened), the measurement table
\* as it was, and the profile row inserted by the iteration in the store.
C13_ExtractionFailureConfined ==
    it.fail = "extract" =>
        /\ pc = "loop"
        /\ i = it.idx + 1
        /\ ds_open
        /\ it.handed = <<>>
        /\ batch = <<>>
        /\ sent = 0
        /\ tx = "idle"
        /\ tx_meas = <<>>
        /\ measurements = it.snap_m
        /\ it.new
        /\ \E r \in profiles \ it.snap_p :
              /\ profiles = it.snap_p \cup {r}
              /\ KeyOf(r) = IterKey
              /\ r.profile_id = profile_id
              /\ MeasOf(r.profile_id) = <<>>

\* The extraction of pA, which has a row to store, raised: pA's row is in
\* the store without measurements and the file's next profile is still to come.
C13_Witness ==
    /\ it.fail = "extract"
    /\ pc = "loop"
    /\ IterProf = pA
    /\ i < Len(CurFile)
    /\ _extract_measurements(IterProf.samples, profile_id) # <<>>
    /\ \E r \in profiles : KeyOf(r) = IterKey /\ MeasOf(r.profile_id) = <<>>

\* C14: whenever control is outside process_file's with block (in main
\* before or after a call, at the open itself, after the run or after a
\* kill) no dataset handle is open; inside the block the only open handle is
\* that of the file being processed; never more than one handle is open.
C14_HandleReleased ==
    /\ Cardinality(ds_handles) <= 1
    /\ pc \in { "main", "open", "closed", "killed" } => ds_handles = {}
    /\ pc \in { "loop", "exists", "meta", "insert", "insert_commit", "extract",
                "bulk" } => ds_handles = {fi}

\* process_file has returned from a second file that was opened, skipped a
\* duplicate and then met a failure in a run that is no longer clean: no
\* handle is left open.
C14_Witness ==
    /\ pc = "main"
    /\ fi = 3
    /\ fstart.dups # {}
    /\ file_failed
    /\ ~run_clean
    /\ ds_handles = {}

\* How far the thread of control has come, as a number that every step of
\* the program increases and that is bounded: position within the profile
\* iteration, within the file, within the run, within the sequence of runs.
LongestBatch ==
    LET lens == UNION { { Len(f[k].samples) : k \in 1..Len(f) } : f \in FileLib }
    IN  CHOOSE n \in lens : \A m \in lens : m <= n
LongestFile ==
    LET lens == { Len(f) : f \in FileLib }
    IN  CHOOSE n \in lens : \A m \in lens : m <= n
IterSpan == 7 + LongestBatch
FileSpan == 2 + (LongestFile + 1) * IterSpan
RunSpan == (MaxFiles + 2) * FileSpan
StageOf ==
    CASE pc = "loop" -> 0
      [] pc = "exists" -> 1
      [] pc = "meta" -> 2
      [] pc = "insert" -> 3
      [] pc = "insert_commit" -> 4
      [] pc = "extract" -> 5
      [] pc = "bulk" -> 6 + sent
      [] OTHER -> 0
FileProgress ==
    CASE pc = "main" -> 0
      [] pc = "open" -> 1
      [] OTHER -> 2 + i * IterSpan + StageOf
Progress ==
    CASE pc = "killed" -> MaxRuns * RunSpan
      [] pc = "closed" -> run * RunSpan - 1
      [] OTHER -> (run - 1) * RunSpan + (fi - 1) * FileSpan + FileProgress
InOrder(s) == \A k \in 1..Len(s) : s[k] = k

\* What C15 says of every state of a run.
C15_State ==
    \* the files are handed to process_file in list order, each once, and a
    \* file is handed over only when the one before it has returned
    /\ InOrder(attempted)
    /\ pc \notin { "closed", "killed" } =>
          Len(attempted) = IF pc = "main" THEN fi - 1 ELSE fi
    /\ pc = "main" =>
          /\ ~it.active
          /\ ds_handles = {}
          /\ batch = <<>>
          /\ tx_profiles = {}
          /\ tx_meas = <<>>
    \* the run ends only when every file has been attempted
    /\ pc = "closed" => Len(attempted) = Len(files)
    \* and until then, whatever has failed, it has a next step
    /\ pc \in { "closed", "killed" } \/ ENABLED (Next /\ pc' # "killed")
    /\ Progress <= MaxRuns * RunSpan

\* C15: whatever failures occur in a run, every file of the list is handed
\* to process_file exactly once, in list order, one at a time; the run is
\* never stuck before main's loop is exhausted; and it terminates, since
\* every step increases a bounded measure of progress.
C15_RunCompletes ==
    /\ []C15_State
    /\ [][Progress' > Progress]_vars

\* A run over two files has ended after failures in both of them.
C15_Witness ==
    /\ pc = "closed"
    /\ Len(files) = 2
    /\ attempted = << 1, 2 >>
    /\ earlier_failed
    /\ file_failed
    /\ faults = MaxFaults

\* C16: every step leaves each committed profile row in the store as it is
\* and the committed measurement rows as they are and where they are (rows
\* are only added, measurement rows at the end); a step that rolls back
\* leaves both tables exactly as they were.
C16_AppendOnly ==
    [][ /\ profiles \subseteq profiles'
        /\ IsPrefix(measurements, measurements')
        /\ (tx # "idle" /\ tx' = "idle" /\ faults' # faults) =>
               (profiles' = profiles /\ measurements' = measurements) ]_vars

\* A batch insert that had sent a page was rolled back in a second file: the
\* rows the first file had committed are all still there.
C16_Witness ==
    /\ it.fail = "bulk"
    /\ it.torn
    /\ fi = 2
    /\ fstart.snap_p # {}
    /\ fstart.snap_m # <<>>
    /\ fstart.snap_p \subseteq profiles
    /\ IsPrefix(fstart.snap_m, measurements)

\* C17: every measurement row of the store carries the profile_id of exactly
\* one profile row of the store; that row has the key and timestamp of the
\* profile whose insert generated the id, and the measurement row was built
\* from a depth sample of that same profile.
C17_MeasurementsOwned ==
    \A k \in 1..Len(measurements) :
        LET row == measurements[k]
            own == { r \in profiles : r.profile_id = row.profile_id }
        IN  /\ Cardinality(own) = 1
            /\ row.profile_id \in Ids
            /\ \A r \in own :
                  LET src == origin[r.profile_id]
                  IN  /\ KeyOf(r) = << src.PLATFORM_NUMBER, src.CYCLE_NUMBER >>
                      /\ r.profile_timestamp = src.JULD
                      /\ \E j \in 1..Len(src.samples) :
                            LET smp == src.samples[j]
                            IN  /\ smp.PRES_QC \in {1, 2}
                                /\ row.pressure_dbar = smp.PRES
                                /\ row.temperature_celsius =
                                       Persisted(smp.TEMP, smp.TEMP_QC)
                                /\ row.salinity_psu = Persisted(smp.PSAL, smp.PSAL_QC)

\* Three profiles with rows of their own are stored: each row's id leads to
\* the profile it was sampled from.
C17_Witness ==
    /\ Cardinality(profiles) >= 3
    /\ \E a \in profiles : \E b \in profiles :
          /\ origin[a.profile_id] = pA
          /\ origin[b.profile_id] = pS
          /\ Len(MeasOf(a.profile_id)) = 2
          /\ Len(MeasOf(b.profile_id)) = 5
          /\ a.profile_id > b.profile_id

AllKeys == UNION { KeysOfFile(files[f]) : f \in 1..Len(files) }
\* process_file has just returned from a file it abandoned at a profile index
JustAborted == pc = "main" /\ fstart.abort # None
\* the run has ended and nothing failed in it
EndedClean ==
    pc = "closed" /\ run_clean /\ ~file_failed /\ ~earlier_failed

\* C18: when process_file returns from a file abandoned at index k, the rows
\* the store had when the file was opened are all there, every profile
\* inserted for an index before k is there with the batch committed for it,
\* and nothing was checked, inserted or skipped for an index from k on; and
\* at the end of a later run in which nothing failed, the run has added one
\* row for each key of the files that was not stored and no other, so the
\* stored keys are the keys of the files.
C18_AbortKeepsEarlierWork ==
    /\ JustAborted =>
          LET k == fstart.abort
              f == files[fi - 1]
          IN  /\ fstart.snap_p \subseteq profiles
              /\ IsPrefix(fstart.snap_m, measurements)
              /\ fstart.dups \cup fstart.added \subseteq 0..(k - 1)
              /\ fstart.batched \subseteq fstart.added
              /\ Cardinality(profiles \ fstart.snap_p) = Cardinality(fstart.added)
              /\ \A j \in fstart.added :
                    \E r \in profiles \ fstart.snap_p :
                        /\ origin[r.profile_id] = f[j + 1]
                        /\ KeyOf(r) = << f[j + 1].PLATFORM_NUMBER, f[j + 1].CYCLE_NUMBER >>
                        /\ MeasOf(r.profile_id) =
                              IF j \in fstart.batched
                              THEN _extract_measurements(f[j + 1].samples, r.profile_id)
                              ELSE <<>>
    /\ (run > 1 /\ EndedClean) =>
          /\ prev.keys \subseteq Keys(profiles)
          /\ Keys(profiles) = AllKeys
          /\ Cardinality(profiles) = prev.np + Cardinality(AllKeys \ prev.keys)

\* The only file of the first run was abandoned after a profile of it had
\* been stored (no insert ever failed: no value of the sequence was lost);
\* the second run, in which nothing failed, has stored the missing profile.
C18_Witness ==
    /\ run = 2
    /\ EndedClean
    /\ ~prev.clean
    /\ Len(files) = 1
    /\ prev.keys # {}
    /\ prev.keys # AllKeys
    /\ Keys(profiles) = AllKeys
    /\ next_id = SerialStart + Cardinality(profiles)

\* C19: with two processes on one store, no key has two profile rows; for
\* no key did the inserts of both processes commit, and where one process's
\* insert committed, an insert the other tried for that key failed; every
\* measurement row belongs to a stored profile, and the rows of a profile
\* are one batch, written by the process whose insert of that profile
\* committed, never by one whose insert failed.
C19_OneWriterPerKey ==
    /\ \A r1 \in profiles : \A r2 \in profiles : KeyOf(r1) = KeyOf(r2) => r1 = r2
    /\ \A k \in 1..Len(measurements) :
          \E r \in profiles : r.profile_id = measurements[k].profile_id
    /\ \A t \in wlog.won : \A u \in wlog.won : t[2] = u[2] => t = u
    /\ \A t \in wlog.tried :
          \/ t \in wlog.won
          \/ t \in wlog.lost
          \/ /\ Me(t[1]).pc = "insert_commit"
             /\ Keys(Me(t[1]).tx_profiles) = { t[2] }
    /\ \A t \in wlog.won : \A u \in wlog.tried :
          (t[2] = u[2] /\ t[1] # u[1]) => u \in wlog.lost
    /\ \A t \in wlog.wrote :
          /\ t[2] \in Ids
          /\ << t[1], << origin[t[2]].PLATFORM_NUMBER, origin[t[2]].CYCLE_NUMBER >> >>
                \in wlog.won
          /\ \A u \in wlog.wrote : t[2] = u[2] => t = u
    /\ \A pid \in Ids :
          MeasOf(pid) = IF \E t \in wlog.wrote : t[2] = pid
                        THEN _extract_measurements(origin[pid].samples, pid)
                        ELSE <<>>

\* Both processes have finished the file << pA, pB >>: both tried to insert
\* pA, one insert committed and the other failed, and pA's two measurement
\* rows are in the store once.
C19_Witness ==
    /\ \A p \in Procs : Me(p).pc = "closed" /\ worker_files[p] = << << pA, pB >> >>
    /\ \E p \in Procs : \E q \in Procs \ {p} :
          /\ << p, << 1, 1 >> >> \in wlog.won
          /\ << q, << 1, 1 >> >> \in wlog.lost
    /\ \E r \in profiles :
          /\ KeyOf(r) = << 1, 1 >>
          /\ Len(MeasOf(r.profile_id)) = 2
          /\ Len(measurements) >= 2

====
